---------------------------- MODULE Spec2Model ----------------------------
(***************************************************************************)
(* A model of aliceVision::image::ImageCache                               *)
(* (src/aliceVision/image/caching.hpp): the cache key, the memory          *)
(* accounting, and ImageCache::get / ImageCache::load with the LRU list    *)
(* and the use-count gated eviction.                                       *)
(*                                                                         *)
(* Three specifications share the variables:                               *)
(*   Spec      get as one step (it runs under the lock_guard), with the    *)
(*             callers' handle copies and releases between the calls;      *)
(*   ConcSpec  get statement by statement, threads contending for _mutex;   *)
(*   ReaderSpec  one thread in get, statement by statement, and a caller   *)
(*             of memoryUsage(), which takes no lock;                      *)
(*   CtorSpec  the CacheMemoryUsage constructor on 32-bit int.             *)
(***************************************************************************)
EXTENDS Integers, Sequences, FiniteSets, TLC

VARIABLES
    capacity_MB,    \* constructor argument
    maxSize_MB,     \* constructor argument
    ctor,           \* "pending" | "done" | "trapped": state of the construction
    capacity,       \* _memUsage.capacity
    maxSize,        \* _memUsage.maxSize
    nbImages,       \* _memUsage.nbImages
    contentSize,    \* _memUsage.contentSize
    imagePtrs,      \* _imagePtrs: CacheKey -> CacheValue
    keys,           \* _keys: list of CacheKey, LRU first, MRU last
    refs,           \* use_count of every live image buffer (shared_ptr control blocks)
    last,           \* history: what the most recent completed get did
    sizesAgree,     \* history: every admitted buffer had the size computed from readImageSize
    mutex,          \* _mutex: 0 when free, otherwise the thread holding it
    pc,             \* per thread: position inside get
    loc,            \* per thread: the locals of get
    rd              \* the reader of memoryUsage(): position and the fields read so far

vars == <<capacity_MB, maxSize_MB, ctor, capacity, maxSize, nbImages, contentSize,
          imagePtrs, keys, refs, last, sizesAgree, mutex, pc, loc, rd>>

cacheVars == <<nbImages, contentSize, imagePtrs, keys>>
cfgVars == <<capacity_MB, maxSize_MB, ctor, capacity, maxSize>>
concVars == <<mutex, pc, loc, rd>>

-----------------------------------------------------------------------------
(* Bounds of the model *)

\* external handles a caller may hold on one buffer at a time
MaxHandles == 1

-----------------------------------------------------------------------------
(* Requests: file names, pixel types, half-sampling levels *)

Filenames == {"a.png", "b.png"}

PngA == "a.png"

PngB == "b.png"

Dim(w, h) == [width |-> w, height |-> h]

\* the outcome of a read that throws
Throws == Dim(-1, -1)

\* The dimensions a file has on disk. a.png is a stable 1000 x 1000 image;
\* b.png is rewritten from time to time, 2000 x 1000 or 2000 x 2000, so that
\* what readImageSize reports and what readImage delivers may disagree.
FileDims(filename) ==
    IF filename = PngA THEN {Dim(1000, 1000)}
                       ELSE {Dim(2000, 1000), Dim(2000, 2000)}

\* readImageSize(filename, width, height): the dimensions, or an exception
\* (b.png is at times unreadable)
readImageSize(filename) ==
    FileDims(filename) \cup (IF filename = PngB THEN {Throws} ELSE {})

\* readImage(key.filename, *img, _options): the image, or an exception
readImage(filename) ==
    FileDims(filename) \cup (IF filename = PngB THEN {Throws} ELSE {})

\* ColorTypeInfo<TPix>::size, ::typeDesc and sizeof(TPix) of the pixel types
\* the model requests (unsigned char, RGBColor, float).
PixelTypes ==
    { [name |-> "uchar", size |-> 1, typeDesc |-> "UINT8", bytes |-> 1],
      [name |-> "RGB",   size |-> 3, typeDesc |-> "UINT8", bytes |-> 3],
      [name |-> "float", size |-> 1, typeDesc |-> "FLOAT", bytes |-> 4] }

Levels == {0, 1}

PixOf(name) == CHOOSE p \in PixelTypes : p.name = name

Request(filename, pixName, level) ==
    [filename |-> filename, pix |-> PixOf(pixName), level |-> level]

\* The calls get<TPix>(filename, halfSampleLevel) the callers make. For each of
\* the four key fields two of them differ in that field alone.
Requests ==
    { Request(PngA, "uchar", 1), Request(PngB, "uchar", 1), Request(PngA, "RGB", 1),
      Request(PngA, "float", 1), Request(PngA, "uchar", 0) }

\* <<capacity_MB, maxSize_MB>> given to the constructor in Spec and ConcSpec;
\* <<2, 1>> is a configuration with capacity > maxSize, which nothing rejects.
Configs == {<<1, 2>>, <<2, 1>>}

-----------------------------------------------------------------------------
(* CacheKey *)

CacheKey(path, nchannels, baseType, level) ==
    [filename |-> path, nbChannels |-> nchannels, typeDesc |-> baseType,
     halfSampleLevel |-> level]

\* a faulty variant: the level is left out of the comparison
KeyEqNoLevel(a, b) ==
    /\ a.filename = b.filename
    /\ a.nbChannels = b.nbChannels
    /\ a.typeDesc = b.typeDesc

\* CacheKey::operator==
KeyEq(a, b) ==
    /\ a.filename = b.filename
    /\ a.nbChannels = b.nbChannels
    /\ a.typeDesc = b.typeDesc
    /\ a.halfSampleLevel = b.halfSampleLevel

\* the key get builds for get<TPix>(filename, halfSampleLevel)
ReqKey(filename, pix, level) == CacheKey(filename, pix.size, pix.typeDesc, level)

-----------------------------------------------------------------------------
(* CacheMemoryUsage: int capacity(capacity_MB * 1000000) on a 32-bit int *)

BytesPerMB == 1000000

TwoTo16 == 2 ^ 16

IntMax == (2 ^ 30 - 1) * 2 + 1

\* capacity_MB * 1000000 reduced modulo 2^32 and read as a signed 32-bit int,
\* computed in 16-bit halves so that no intermediate value leaves the int range.
WrapMul(mb) ==
    LET lowFull == mb * (BytesPerMB % TwoTo16)
        low     == lowFull % TwoTo16
        high    == (mb * (BytesPerMB \div TwoTo16) + (lowFull \div TwoTo16)) % TwoTo16
    IN  IF high >= TwoTo16 \div 2 THEN (high - TwoTo16) * TwoTo16 + low
                                  ELSE high * TwoTo16 + low

\* whether mb * 1000000 fits an int (mb >= 0)
FitsInt(mb) == mb <= IntMax \div BytesPerMB

\* The values `mb * 1000000` can take. The exact product when it fits; signed
\* overflow is undefined behaviour, and the builds either wrap (imul) or trap
\* (-ftrapv, sanitizers): the wrapped value here, the trap in CtorTrap.
MBToBytes(mb) == IF FitsInt(mb) THEN {mb * BytesPerMB} ELSE {WrapMul(mb)}

-----------------------------------------------------------------------------
(* Lists and maps *)

RemoveAt(s, i) == SubSeq(s, 1, i - 1) \o SubSeq(s, i + 1, Len(s))

\* a faulty variant: the search stops before the last element
FindKeyButLast(ks, k) ==
    IF \E i \in 1..(Len(ks) - 1) : KeyEq(ks[i], k)
    THEN CHOOSE i \in 1..(Len(ks) - 1) :
             KeyEq(ks[i], k) /\ \A j \in 1..(i - 1) : ~KeyEq(ks[j], k)
    ELSE 0

\* std::find(_keys.begin(), _keys.end(), reqKey): the first position holding a
\* key equal to k, 0 for _keys.end()
FindKey(ks, k) ==
    IF \E i \in 1..Len(ks) : KeyEq(ks[i], k)
    THEN CHOOSE i \in 1..Len(ks) :
             KeyEq(ks[i], k) /\ \A j \in 1..(i - 1) : ~KeyEq(ks[j], k)
    ELSE 0

MapHas(m, k) == \E x \in DOMAIN m : KeyEq(x, k)

\* _imagePtrs.at(key)
MapAt(m, k) == m[CHOOSE x \in DOMAIN m : KeyEq(x, k)]

\* _imagePtrs.erase(key)
MapErase(m, k) == [x \in {y \in DOMAIN m : ~KeyEq(y, k)} |-> m[x]]

\* _imagePtrs.insert({key, value}): no effect when an equal key is mapped
MapInsert(m, k, v) ==
    IF MapHas(m, k) THEN m
    ELSE [x \in DOMAIN m \cup {k} |-> IF x = k THEN v ELSE m[x]]

RECURSIVE SumSizes(_)
\* the sum of memorySize() over the mapped values
SumSizes(m) ==
    IF DOMAIN m = {} THEN 0
    ELSE LET k == CHOOSE x \in DOMAIN m : TRUE
         IN  m[k].size + SumSizes([x \in DOMAIN m \ {k} |-> m[x]])

EmptyMap == [x \in {} |-> 0]

-----------------------------------------------------------------------------
(* CacheValue and the shared_ptr use counts *)

\* the null shared_ptr
NullBuf == 0

\* CacheValue::wrap(img): buf names the image buffer, made records what
\* load<TPix> read it from
CacheValue(b, bytes, filename, pix, level) ==
    [buf |-> b, size |-> bytes, pix |-> pix.name,
     made |-> [filename |-> filename, pix |-> pix.name, level |-> level]]

\* CacheValue::useCount(): use_count of the wrapped shared_ptr
useCount(r, value) == IF value.buf \in DOMAIN r THEN r[value.buf] ELSE 0

\* CacheValue::memorySize()
memorySize(value) == value.size

\* CacheValue::get<TPix>(): the wrapped pointer for the matching variant, else null
ValueGet(value, pix) == IF value.pix = pix.name THEN value.buf ELSE NullBuf

\* one more owner of buffer b
AddRef(r, b) == [r EXCEPT ![b] = @ + 1]

\* one owner of buffer b less; the buffer is freed with its last owner
DropRef(r, b) ==
    IF b \notin DOMAIN r THEN r
    ELSE IF r[b] = 1 THEN [x \in DOMAIN r \ {b} |-> r[x]]
    ELSE [r EXCEPT ![b] = @ - 1]

\* std::make_shared: a buffer no live owner names
FreshBuf(r) == CHOOSE b \in 1..(Cardinality(DOMAIN r) + 1) : b \notin DOMAIN r

-----------------------------------------------------------------------------
(* The cache as a value: what get reads and writes, with the entries it      *)
(* evicted so far (history).                                                 *)

CacheState ==
    [imagePtrs |-> imagePtrs, keys |-> keys, nbImages |-> nbImages,
     contentSize |-> contentSize, refs |-> refs, evicted |-> <<>>]

\* int memSize = (width / downscale) * (height / downscale) * sizeof(TPix),
\* with downscale = 1 << halfSampleLevel
MemSize(dim, pix, level) ==
    (dim.width \div (2 ^ level)) * (dim.height \div (2 ^ level)) * pix.bytes

\* a faulty variant: the eviction forgets contentSize
EvictAtKeepSize(c, i) ==
    LET key   == c.keys[i]
        value == MapAt(c.imagePtrs, key)
    IN  [c EXCEPT !.nbImages = @ - 1,
                  !.imagePtrs = MapErase(@, key),
                  !.keys = RemoveAt(@, i),
                  !.refs = DropRef(@, value.buf),
                  !.evicted = Append(@, [key |-> key, useCount |-> useCount(c.refs, value),
                                         size |-> memorySize(value), pos |-> i])]

\* a faulty variant: the eviction leaves the key in the list
EvictAtKeepKey(c, i) ==
    LET key   == c.keys[i]
        value == MapAt(c.imagePtrs, key)
    IN  [c EXCEPT !.nbImages = @ - 1,
                  !.contentSize = @ - memorySize(value),
                  !.imagePtrs = MapErase(@, key),
                  !.refs = DropRef(@, value.buf),
                  !.evicted = Append(@, [key |-> key, useCount |-> useCount(c.refs, value),
                                         size |-> memorySize(value), pos |-> i])]

\* a faulty variant: the eviction forgets nbImages
EvictAtKeepCount(c, i) ==
    LET key   == c.keys[i]
        value == MapAt(c.imagePtrs, key)
    IN  [c EXCEPT !.contentSize = @ - memorySize(value),
                  !.imagePtrs = MapErase(@, key),
                  !.keys = RemoveAt(@, i),
                  !.refs = DropRef(@, value.buf),
                  !.evicted = Append(@, [key |-> key, useCount |-> useCount(c.refs, value),
                                         size |-> memorySize(value), pos |-> i])]

\* The eviction of the entry at position i of _keys:
\*   _memUsage.nbImages--; _memUsage.contentSize -= value.memorySize();
\*   _imagePtrs.erase(key); _keys.erase(it);
\* erasing the value releases the cache's ownership of the buffer.
EvictAt(c, i) ==
    LET key   == c.keys[i]
        value == MapAt(c.imagePtrs, key)
    IN  [c EXCEPT !.nbImages = @ - 1,
                  !.contentSize = @ - memorySize(value),
                  !.imagePtrs = MapErase(@, key),
                  !.keys = RemoveAt(@, i),
                  !.refs = DropRef(@, value.buf),
                  !.evicted = Append(@, [key |-> key, useCount |-> useCount(c.refs, value),
                                         size |-> memorySize(value), pos |-> i])]

\* a faulty variant: the use count is not looked at
IsVictimAnyUse(c, i, missingCapacity) ==
    memorySize(MapAt(c.imagePtrs, c.keys[i])) >= missingCapacity

\* value.useCount() == 1 && value.memorySize() >= missingCapacity
IsVictim(c, i, missingCapacity) ==
    LET value == MapAt(c.imagePtrs, c.keys[i])
    IN  useCount(c.refs, value) = 1 /\ memorySize(value) >= missingCapacity

\* a faulty variant: the smallest entry that is unused and large enough
FindVictimSmallest(c, missingCapacity) ==
    IF \E i \in 1..Len(c.keys) : IsVictim(c, i, missingCapacity)
    THEN CHOOSE i \in 1..Len(c.keys) :
             /\ IsVictim(c, i, missingCapacity)
             /\ \A j \in 1..Len(c.keys) :
                    IsVictim(c, j, missingCapacity) =>
                        memorySize(MapAt(c.imagePtrs, c.keys[i]))
                            <= memorySize(MapAt(c.imagePtrs, c.keys[j]))
    ELSE 0

\* the single-victim scan: the first position of _keys whose entry is unused and
\* large enough, 0 when the scan reaches _keys.end()
\* a faulty variant: the first entry without outside owner is taken, whatever
\* its size
FindVictimAnyUnused(c, missingCapacity) ==
    IF \E i \in 1..Len(c.keys) : useCount(c.refs, MapAt(c.imagePtrs, c.keys[i])) = 1
    THEN CHOOSE i \in 1..Len(c.keys) :
             /\ useCount(c.refs, MapAt(c.imagePtrs, c.keys[i])) = 1
             /\ \A j \in 1..(i - 1) : useCount(c.refs, MapAt(c.imagePtrs, c.keys[j])) # 1
    ELSE 0

FindVictim(c, missingCapacity) ==
    IF \E i \in 1..Len(c.keys) : IsVictim(c, i, missingCapacity)
    THEN CHOOSE i \in 1..Len(c.keys) :
             /\ IsVictim(c, i, missingCapacity)
             /\ \A j \in 1..(i - 1) : ~IsVictim(c, j, missingCapacity)
    ELSE 0

\* a faulty variant: the oldest entry is taken, whatever its use count
FindUnusedOldest(c) == IF Len(c.keys) > 0 THEN 1 ELSE 0

\* a faulty variant: the newest entry without outside owner is taken
FindUnusedNewest(c) ==
    IF \E i \in 1..Len(c.keys) : useCount(c.refs, MapAt(c.imagePtrs, c.keys[i])) = 1
    THEN CHOOSE i \in 1..Len(c.keys) :
             /\ useCount(c.refs, MapAt(c.imagePtrs, c.keys[i])) = 1
             /\ \A j \in (i + 1)..Len(c.keys) :
                    useCount(c.refs, MapAt(c.imagePtrs, c.keys[j])) # 1
    ELSE 0

\* std::find_if(_keys.begin(), _keys.end(), useCount() == 1): 0 for _keys.end()
FindUnused(c) ==
    IF \E i \in 1..Len(c.keys) : useCount(c.refs, MapAt(c.imagePtrs, c.keys[i])) = 1
    THEN CHOOSE i \in 1..Len(c.keys) :
             /\ useCount(c.refs, MapAt(c.imagePtrs, c.keys[i])) = 1
             /\ \A j \in 1..(i - 1) : useCount(c.refs, MapAt(c.imagePtrs, c.keys[j])) # 1
    ELSE 0

\* a faulty variant: the loop leaves after its first eviction
RemoveUnusedOnce(c, missingCapacity) ==
    IF missingCapacity > 0 /\ FindUnused(c) # 0 THEN EvictAt(c, FindUnused(c)) ELSE c

RECURSIVE RemoveUnused(_, _)
\* while (missingCapacity > 0) { find_if ...; if found evict else break; }
\* missingCapacity is not assigned in the loop.
RemoveUnused(c, missingCapacity) ==
    IF missingCapacity > 0
    THEN IF FindUnused(c) # 0
         THEN RemoveUnused(EvictAt(c, FindUnused(c)), missingCapacity)
         ELSE c
    ELSE c

\* a faulty variant: the resident bytes are left out of the test
FitsMaxSizeAlone(memSize, c) == memSize <= maxSize

\* memSize + _memUsage.contentSize <= _memUsage.maxSize
FitsMaxSize(memSize, c) == memSize + c.contentSize <= maxSize

\* memSize + _memUsage.contentSize <= _memUsage.capacity
\* a faulty variant: the capacity test never passes
FitsCapacityNever(memSize, c) == FALSE

FitsCapacity(memSize, c) == memSize + c.contentSize <= capacity

\* a faulty variant: the entry is mapped but not appended to the list
loadNoPush(c, key, pix, img) ==
    LET value == CacheValue(FreshBuf(c.refs), MemSize(img, pix, key.halfSampleLevel),
                            key.filename, pix, key.halfSampleLevel)
    IN  [c EXCEPT !.imagePtrs = MapInsert(@, key, value),
                  !.nbImages = @ + 1,
                  !.contentSize = @ + memorySize(value),
                  !.refs = [b \in DOMAIN @ \cup {value.buf} |->
                               IF b = value.buf THEN 1 ELSE @[b]]]

\* ImageCache::load<TPix>(key) when readImage delivers img: the image is
\* downscaled, wrapped, inserted in the map, appended as MRU and accounted.
\* The map's copy of the pointer is its only owner when load returns.
load(c, key, pix, img) ==
    LET value == CacheValue(FreshBuf(c.refs), MemSize(img, pix, key.halfSampleLevel),
                            key.filename, pix, key.halfSampleLevel)
    IN  IF MapHas(c.imagePtrs, key)
        THEN [c EXCEPT !.keys = Append(@, key),
                       !.nbImages = @ + 1,
                       !.contentSize = @ + memorySize(value)]
        ELSE [c EXCEPT !.imagePtrs = MapInsert(@, key, value),
                       !.keys = Append(@, key),
                       !.nbImages = @ + 1,
                       !.contentSize = @ + memorySize(value),
                       !.refs = [b \in DOMAIN @ \cup {value.buf} |->
                                    IF b = value.buf THEN 1 ELSE @[b]]]

-----------------------------------------------------------------------------
(* ImageCache::get<TPix>(filename, halfSampleLevel) as a function of the cache *)

\* a faulty variant: the key found stays where it is
PromoteInPlace(ks, it, key) == ks

\* _keys.erase(it); _keys.push_back(reqKey);
Promote(ks, it, key) == Append(RemoveAt(ks, it), key)

NoMade == [filename |-> "", pix |-> "", level |-> 0]

\* the outcome of a get that returns no image
Failed(c, how, memSize, nloads) ==
    [c |-> c, status |-> how, ret |-> NullBuf, loads |-> nloads,
     required |-> memSize, served |-> NoMade, pos |-> 0]

\* a faulty variant: the key is appended to the list before readImage is called
AdmitKeyFirst(c, how, reqKey, pix, memSize, img) ==
    IF img = Throws
    THEN Failed([c EXCEPT !.keys = Append(@, reqKey)], "load_failed", memSize, 1)
    ELSE LET c2    == load(c, reqKey, pix, img)
             value == MapAt(c2.imagePtrs, reqKey)
         IN  [c |-> c2, status |-> how, ret |-> ValueGet(value, pix), loads |-> 1,
              required |-> memSize, served |-> value.made, pos |-> 0]

\* load<TPix>(reqKey); return _imagePtrs.at(reqKey).get<TPix>();
\* readImage throws out of load before anything is inserted.
Admit(c, how, reqKey, pix, memSize, img) ==
    IF img = Throws THEN Failed(c, "load_failed", memSize, 1)
    ELSE LET c2    == load(c, reqKey, pix, img)
             value == MapAt(c2.imagePtrs, reqKey)
         IN  [c |-> c2, status |-> how, ret |-> ValueGet(value, pix), loads |-> 1,
              required |-> memSize, served |-> value.made, pos |-> 0]

\* The whole of get: probe is what readImageSize delivers and img what
\* readImage delivers (Throws: the call throws).
get(c, filename, pix, level, probe, img) ==
    LET reqKey == ReqKey(filename, pix, level)
        it     == FindKey(c.keys, reqKey)
    IN  IF it # 0
        THEN LET value == MapAt(c.imagePtrs, reqKey)
             IN  [c |-> [c EXCEPT !.keys = Promote(@, it, reqKey)],
                  status |-> "hit", ret |-> ValueGet(value, pix), loads |-> 0,
                  required |-> -1, served |-> value.made, pos |-> it]
        ELSE IF probe = Throws THEN Failed(c, "probe_failed", -1, 0)
        ELSE LET memSize == MemSize(probe, pix, level)
             IN  IF FitsCapacity(memSize, c)
                 THEN Admit(c, "direct", reqKey, pix, memSize, img)
                 ELSE LET missingCapacity == memSize + c.contentSize - capacity
                          victim == FindVictim(c, missingCapacity)
                      IN  IF victim # 0
                          THEN Admit(EvictAt(c, victim), "single", reqKey, pix, memSize, img)
                          ELSE LET c2 == RemoveUnused(c, missingCapacity)
                               IN  IF FitsMaxSize(memSize, c2)
                                   THEN Admit(c2, "multi", reqKey, pix, memSize, img)
                                   ELSE Failed(c2, "exhausted", memSize, 0)

-----------------------------------------------------------------------------
(* Callers' handles *)

Resident(m, b) == \E k \in DOMAIN m : m[k].buf = b

\* the owners of buffer b other than the cache's map
External(m, r, b) ==
    IF b \in DOMAIN r THEN r[b] - (IF Resident(m, b) THEN 1 ELSE 0) ELSE 0

Succeeded(status) == status \in {"hit", "direct", "single", "multi"}

Admitted(status) == status \in {"direct", "single", "multi"}

\* readImageSize or readImage threw
LoaderFailed(status) == status \in {"probe_failed", "load_failed"}

NoKey == CacheKey("", 0, "", 0)

\* What the history keeps of a completed get: the key asked for, how the call
\* ended, the buffer returned, the readImage calls made, memSize, the number of
\* entries evicted and the use counts they had when chosen, what the returned
\* buffer was read from and, when the call before asked for the same key and
\* succeeded (repeat), the buffer and the readImage calls of that call. Further:
\* the position std::find found the key at (pos, 0 on a miss), the evictions in
\* the order made, each by the position its entry had in _keys at that moment
\* (evicted), whether the call before asked for the same key and failed in the
\* loader (retry), and whether the caller entered get while the call before,
\* for the same key, held _mutex (overlapped).
NoCall ==
    [key |-> NoKey, status |-> "none", ret |-> NullBuf, loads |-> 0,
     required |-> -1, nEvicted |-> 0, evictedUse |-> {}, served |-> NoMade,
     repeat |-> FALSE, prevRet |-> NullBuf, prevLoads |-> 0,
     pos |-> 0, evicted |-> <<>>, retry |-> FALSE, overlapped |-> FALSE]

-----------------------------------------------------------------------------
(* Spec: get as one step *)

\* the threads calling get in ConcSpec; ReaderSpec runs the first of them
Threads == {1, 2}

\* the locals of a thread in get: the arguments, memSize, missingCapacity, the
\* list position `it`, the pass that leads to load (after), the size of the
\* image readImage delivered, and what the history will keep of the call: how
\* it ended, the pointer returned, the readImage calls made, and whether it
\* began while a call for the same key held _mutex
NoLoc ==
    [filename |-> "", pix |-> "", level |-> 0, memSize |-> -1, missingCapacity |-> 0,
     it |-> 0, after |-> "", imgSize |-> 0, status |-> "", ret |-> NullBuf, loads |-> 0,
     overlapped |-> FALSE]

\* the accounting a caller of memoryUsage() reads
Usage(n, bytes) == [nbImages |-> n, contentSize |-> bytes]

\* The reader of memoryUsage(): where it is, the fields it has read and still
\* holds, the accounting as of the last unlock (committed), the accountings a
\* memoryUsage() taken under _mutex could have returned since the reader began
\* (valid), and, once it has both fields, whether they are none of those
\* (intermediate).
NoRead ==
    [pc |-> "idle", nbImages |-> 0, contentSize |-> 0, committed |-> Usage(0, 0),
     valid |-> {}, intermediate |-> FALSE]

InitCache ==
    /\ nbImages = 0
    /\ contentSize = 0
    /\ imagePtrs = EmptyMap
    /\ keys = <<>>
    /\ refs = EmptyMap
    /\ last = NoCall
    /\ sizesAgree = TRUE

InitConc ==
    /\ mutex = 0
    /\ pc = [t \in Threads |-> "idle"]
    /\ loc = [t \in Threads |-> NoLoc]
    /\ rd = NoRead

\* ImageCache(capacity_MB, maxSize_MB, options): the state after construction
Init ==
    /\ \E cfg \in Configs : capacity_MB = cfg[1] /\ maxSize_MB = cfg[2]
    /\ capacity \in MBToBytes(capacity_MB)
    /\ maxSize \in MBToBytes(maxSize_MB)
    /\ ctor = "done"
    /\ InitCache
    /\ InitConc

\* One call of get, from lock to unlock; the caller keeps the returned handle
\* or drops it at once.
GetCall(q, probe, img, keep) ==
    \E r \in {get(CacheState, q.filename, q.pix, q.level, probe, img)} :
    LET reqKey == ReqKey(q.filename, q.pix, q.level)
        again  == Succeeded(last.status) /\ last.key = reqKey
    IN  /\ keep => /\ r.ret # NullBuf
                   /\ External(r.c.imagePtrs, r.c.refs, r.ret) < MaxHandles
        /\ imagePtrs' = r.c.imagePtrs
        /\ keys' = r.c.keys
        /\ nbImages' = r.c.nbImages
        /\ contentSize' = r.c.contentSize
        /\ refs' = IF keep THEN AddRef(r.c.refs, r.ret) ELSE r.c.refs
        /\ last' = [key |-> reqKey, status |-> r.status, ret |-> r.ret,
                    loads |-> r.loads, required |-> r.required,
                    nEvicted |-> Len(r.c.evicted),
                    evictedUse |-> {r.c.evicted[i].useCount : i \in 1..Len(r.c.evicted)},
                    served |-> r.served, repeat |-> again,
                    prevRet |-> IF again THEN last.ret ELSE NullBuf,
                    prevLoads |-> IF again THEN last.loads ELSE 0,
                    pos |-> r.pos,
                    evicted |-> [i \in 1..Len(r.c.evicted) |-> r.c.evicted[i].pos],
                    retry |-> last.key = reqKey /\ LoaderFailed(last.status),
                    overlapped |-> FALSE]
        /\ sizesAgree' = (sizesAgree /\ (Admitted(r.status) =>
                             memorySize(MapAt(r.c.imagePtrs, reqKey)) = r.required))
        /\ UNCHANGED <<cfgVars, concVars>>

Get ==
    \E q \in Requests, keep \in BOOLEAN :
      \E probe \in readImageSize(q.filename), img \in readImage(q.filename) :
          GetCall(q, probe, img, keep)

\* a caller lets go of a handle
ReleaseHandle ==
    \E b \in DOMAIN refs :
        /\ External(imagePtrs, refs, b) >= 1
        /\ refs' = DropRef(refs, b)
        /\ UNCHANGED <<cfgVars, cacheVars, last, sizesAgree, concVars>>

Next == Get \/ ReleaseHandle

Spec == Init /\ [][Next]_vars

-----------------------------------------------------------------------------
(* CtorSpec: the constructor of CacheMemoryUsage *)

\* the arguments tried: small ones, the two around INT_MAX / 1000000, the two
\* around UINT_MAX / 1000000, and some beyond
CtorMBs == {0, 1, 10, 15, 2147, 2148, 3000, 4294, 4295, 8000}

CtorInit ==
    /\ capacity_MB \in CtorMBs
    /\ maxSize_MB \in CtorMBs
    /\ ctor = "pending"
    /\ capacity = 0
    /\ maxSize = 0
    /\ InitCache
    /\ InitConc

\* CacheMemoryUsage(capacity_MB, maxSize_MB): capacity(capacity_MB * 1000000),
\* maxSize(maxSize_MB * 1000000), nbImages(0), contentSize(0)
CacheMemoryUsage ==
    /\ ctor = "pending"
    /\ capacity' \in MBToBytes(capacity_MB)
    /\ maxSize' \in MBToBytes(maxSize_MB)
    /\ nbImages' = 0
    /\ contentSize' = 0
    /\ ctor' = "done"
    /\ UNCHANGED <<capacity_MB, maxSize_MB, imagePtrs, keys, refs, last, sizesAgree, concVars>>

\* a build that traps on signed overflow aborts in the constructor
CtorTrap ==
    /\ ctor = "pending"
    /\ ~FitsInt(capacity_MB) \/ ~FitsInt(maxSize_MB)
    /\ ctor' = "trapped"
    /\ UNCHANGED <<capacity_MB, maxSize_MB, capacity, maxSize, cacheVars, refs, last,
                   sizesAgree, concVars>>

CtorNext == CacheMemoryUsage \/ CtorTrap

CtorSpec == CtorInit /\ [][CtorNext]_vars

-----------------------------------------------------------------------------
(* ConcSpec: get statement by statement under _mutex, and memoryUsage() *)

\* the calls the threads make in ConcSpec
ConcRequests ==
    { Request(PngA, "RGB", 1), Request(PngA, "float", 1), Request(PngB, "uchar", 1) }

ConcInit ==
    /\ capacity_MB = 1
    /\ maxSize_MB = 2
    /\ capacity \in MBToBytes(capacity_MB)
    /\ maxSize \in MBToBytes(maxSize_MB)
    /\ ctor = "done"
    /\ InitCache
    /\ InitConc

LocKey(t) == ReqKey(loc[t].filename, PixOf(loc[t].pix), loc[t].level)

\* the use count of the entry at position i of _keys
UseAt(i) == useCount(refs, MapAt(imagePtrs, keys[i]))

\* a thread calls get<TPix>(filename, halfSampleLevel)
Call(t) ==
    /\ pc[t] = "idle"
    /\ \E q \in ConcRequests :
          loc' = [loc EXCEPT ![t] = [NoLoc EXCEPT
                     !.filename = q.filename,
                     !.pix = q.pix.name,
                     !.level = q.level,
                     !.overlapped = /\ mutex # 0
                                    /\ LocKey(mutex) = ReqKey(q.filename, q.pix, q.level)]]
    /\ pc' = [pc EXCEPT ![t] = "lock"]
    /\ UNCHANGED <<cfgVars, cacheVars, refs, last, sizesAgree, mutex, rd>>

\* const std::lock_guard<std::mutex> lock(_mutex);
Lock(t) ==
    /\ pc[t] = "lock"
    /\ mutex = 0
    /\ mutex' = t
    /\ pc' = [pc EXCEPT ![t] = "find"]
    /\ UNCHANGED <<cfgVars, cacheVars, refs, last, sizesAgree, loc, rd>>

\* a faulty variant: the list is not searched
FindAlwaysMiss(t) ==
    /\ pc[t] = "find"
    /\ pc' = [pc EXCEPT ![t] = "size"]
    /\ UNCHANGED <<cfgVars, cacheVars, refs, last, sizesAgree, mutex, loc, rd>>

\* std::find in _keys; on a hit the key is moved to the MRU end
Find(t) ==
    /\ pc[t] = "find"
    /\ LET it == FindKey(keys, LocKey(t))
       IN  IF it # 0
           THEN /\ keys' = Promote(keys, it, LocKey(t))
                /\ loc' = [loc EXCEPT ![t].after = "hit"]
                /\ pc' = [pc EXCEPT ![t] = "return"]
           ELSE /\ keys' = keys
                /\ loc' = loc
                /\ pc' = [pc EXCEPT ![t] = "size"]
    /\ UNCHANGED <<cfgVars, nbImages, contentSize, imagePtrs, refs, last, sizesAgree,
                   mutex, rd>>

\* readImageSize(filename, width, height); int memSize = ...
Size(t) ==
    /\ pc[t] = "size"
    /\ \E probe \in readImageSize(loc[t].filename) :
          IF probe = Throws
          THEN /\ loc' = [loc EXCEPT ![t].status = "probe_failed"]
               /\ pc' = [pc EXCEPT ![t] = "unlock"]
          ELSE /\ loc' = [loc EXCEPT ![t].memSize =
                              MemSize(probe, PixOf(loc[t].pix), loc[t].level)]
               /\ pc' = [pc EXCEPT ![t] = "fit"]
    /\ UNCHANGED <<cfgVars, cacheVars, refs, last, sizesAgree, mutex, rd>>

\* if (memSize + contentSize <= capacity) load; else missingCapacity = ...
Fit(t) ==
    /\ pc[t] = "fit"
    /\ IF FitsCapacity(loc[t].memSize, CacheState)
       THEN /\ loc' = [loc EXCEPT ![t].after = "direct"]
            /\ pc' = [pc EXCEPT ![t] = "load"]
       ELSE /\ loc' = [loc EXCEPT ![t].missingCapacity =
                           loc[t].memSize + contentSize - capacity]
            /\ pc' = [pc EXCEPT ![t] = "scan"]
    /\ UNCHANGED <<cfgVars, cacheVars, refs, last, sizesAgree, mutex, rd>>

\* the single-victim scan of _keys
Scan(t) ==
    /\ pc[t] = "scan"
    /\ LET it == FindVictim(CacheState, loc[t].missingCapacity)
       IN  IF it # 0
           THEN /\ loc' = [loc EXCEPT ![t].it = it, ![t].after = "single"]
                /\ pc' = [pc EXCEPT ![t] = "evict_nb"]
           ELSE /\ loc' = loc
                /\ pc' = [pc EXCEPT ![t] = "loop"]
    /\ UNCHANGED <<cfgVars, cacheVars, refs, last, sizesAgree, mutex, rd>>

\* while (missingCapacity > 0) { it = find_if(unused); if (it != end) evict; else break; }
Loop(t) ==
    /\ pc[t] = "loop"
    /\ LET it == FindUnused(CacheState)
       IN  IF loc[t].missingCapacity > 0 /\ it # 0
           THEN /\ loc' = [loc EXCEPT ![t].it = it, ![t].after = "multi"]
                /\ pc' = [pc EXCEPT ![t] = "evict_nb"]
           ELSE /\ loc' = [loc EXCEPT ![t].after = "multi"]
                /\ pc' = [pc EXCEPT ![t] = "maxsize"]
    /\ UNCHANGED <<cfgVars, cacheVars, refs, last, sizesAgree, mutex, rd>>

\* _memUsage.nbImages--;
EvictNb(t) ==
    /\ pc[t] = "evict_nb"
    /\ nbImages' = nbImages - 1
    /\ pc' = [pc EXCEPT ![t] = "evict_cs"]
    /\ UNCHANGED <<cfgVars, contentSize, imagePtrs, keys, refs, last, sizesAgree,
                   mutex, loc, rd>>

\* _memUsage.contentSize -= value.memorySize();
EvictCs(t) ==
    /\ pc[t] = "evict_cs"
    /\ contentSize' = contentSize - memorySize(MapAt(imagePtrs, keys[loc[t].it]))
    /\ pc' = [pc EXCEPT ![t] = "evict_map"]
    /\ UNCHANGED <<cfgVars, nbImages, imagePtrs, keys, refs, last, sizesAgree,
                   mutex, loc, rd>>

\* _imagePtrs.erase(key);
EvictMap(t) ==
    /\ pc[t] = "evict_map"
    /\ imagePtrs' = MapErase(imagePtrs, keys[loc[t].it])
    /\ refs' = DropRef(refs, MapAt(imagePtrs, keys[loc[t].it]).buf)
    /\ pc' = [pc EXCEPT ![t] = "evict_key"]
    /\ UNCHANGED <<cfgVars, nbImages, contentSize, keys, last, sizesAgree, mutex, loc, rd>>

\* _keys.erase(it); then load (single-victim pass) or the loop again
EvictKey(t) ==
    /\ pc[t] = "evict_key"
    /\ keys' = RemoveAt(keys, loc[t].it)
    /\ loc' = [loc EXCEPT ![t].it = 0]
    /\ pc' = [pc EXCEPT ![t] = IF loc[t].after = "single" THEN "load" ELSE "loop"]
    /\ UNCHANGED <<cfgVars, nbImages, contentSize, imagePtrs, refs, last, sizesAgree,
                   mutex, rd>>

\* if (memSize + contentSize <= maxSize) load; else throw
MaxSize(t) ==
    /\ pc[t] = "maxsize"
    /\ IF FitsMaxSize(loc[t].memSize, CacheState)
       THEN /\ loc' = loc
            /\ pc' = [pc EXCEPT ![t] = "load"]
       ELSE /\ loc' = [loc EXCEPT ![t].status = "exhausted"]
            /\ pc' = [pc EXCEPT ![t] = "unlock"]
    /\ UNCHANGED <<cfgVars, cacheVars, refs, last, sizesAgree, mutex, rd>>

\* load: readImage, downscaleImageInplace, CacheValue::wrap
Load(t) ==
    /\ pc[t] = "load"
    /\ \E img \in readImage(loc[t].filename) :
          IF img = Throws
          THEN /\ loc' = [loc EXCEPT ![t].status = "load_failed", ![t].loads = 1]
               /\ pc' = [pc EXCEPT ![t] = "unlock"]
          ELSE /\ loc' = [loc EXCEPT ![t].loads = 1,
                                     ![t].imgSize =
                                         MemSize(img, PixOf(loc[t].pix), loc[t].level)]
               /\ pc' = [pc EXCEPT ![t] = "load_map"]
    /\ UNCHANGED <<cfgVars, cacheVars, refs, last, sizesAgree, mutex, rd>>

\* _imagePtrs.insert({key, value});
LoadMap(t) ==
    /\ pc[t] = "load_map"
    /\ LET value == CacheValue(FreshBuf(refs), loc[t].imgSize, loc[t].filename,
                               PixOf(loc[t].pix), loc[t].level)
       IN  IF MapHas(imagePtrs, LocKey(t))
           THEN UNCHANGED <<imagePtrs, refs>>
           ELSE /\ imagePtrs' = MapInsert(imagePtrs, LocKey(t), value)
                /\ refs' = [b \in DOMAIN refs \cup {value.buf} |->
                               IF b = value.buf THEN 1 ELSE refs[b]]
    /\ pc' = [pc EXCEPT ![t] = "load_key"]
    /\ UNCHANGED <<cfgVars, nbImages, contentSize, keys, last, sizesAgree, mutex, loc, rd>>

\* _keys.push_back(key);
LoadKey(t) ==
    /\ pc[t] = "load_key"
    /\ keys' = Append(keys, LocKey(t))
    /\ pc' = [pc EXCEPT ![t] = "load_nb"]
    /\ UNCHANGED <<cfgVars, nbImages, contentSize, imagePtrs, refs, last, sizesAgree,
                   mutex, loc, rd>>

\* _memUsage.nbImages++;
LoadNb(t) ==
    /\ pc[t] = "load_nb"
    /\ nbImages' = nbImages + 1
    /\ pc' = [pc EXCEPT ![t] = "load_cs"]
    /\ UNCHANGED <<cfgVars, contentSize, imagePtrs, keys, refs, last, sizesAgree,
                   mutex, loc, rd>>

\* _memUsage.contentSize += value.memorySize();
LoadCs(t) ==
    /\ pc[t] = "load_cs"
    /\ contentSize' = contentSize + loc[t].imgSize
    /\ pc' = [pc EXCEPT ![t] = "return"]
    /\ UNCHANGED <<cfgVars, nbImages, imagePtrs, keys, refs, last, sizesAgree,
                   mutex, loc, rd>>

\* return _imagePtrs.at(reqKey).get<TPix>(); the caller keeps the pointer or
\* drops it at once
Return(t) ==
    /\ pc[t] = "return"
    /\ \E keep \in BOOLEAN :
          LET ret == ValueGet(MapAt(imagePtrs, LocKey(t)), PixOf(loc[t].pix))
          IN  /\ keep => /\ ret # NullBuf
                         /\ External(imagePtrs, refs, ret) < MaxHandles
              /\ refs' = IF keep THEN AddRef(refs, ret) ELSE refs
              /\ loc' = [loc EXCEPT ![t].ret = ret, ![t].status = loc[t].after]
    /\ pc' = [pc EXCEPT ![t] = "unlock"]
    /\ UNCHANGED <<cfgVars, cacheVars, last, sizesAgree, mutex, rd>>

\* the lock_guard leaves scope, by return or by exception, and the locals die
\* a faulty variant: _mutex is let go only when get succeeded
LeaveOnSuccessOnly(t) ==
    /\ pc[t] = "unlock"
    /\ mutex = t
    /\ mutex' = IF Succeeded(loc[t].status) THEN 0 ELSE t
    /\ pc' = [pc EXCEPT ![t] = "idle"]
    /\ loc' = IF Succeeded(loc[t].status) THEN [loc EXCEPT ![t] = NoLoc] ELSE loc
    /\ UNCHANGED <<cfgVars, cacheVars, refs>>

Leave(t) ==
    /\ pc[t] = "unlock"
    /\ mutex = t
    /\ mutex' = 0
    /\ pc' = [pc EXCEPT ![t] = "idle"]
    /\ loc' = [loc EXCEPT ![t] = NoLoc]
    /\ UNCHANGED <<cfgVars, cacheVars, refs>>

\* Leave, with the history taking of the outcome what the properties of
\* ConcSpec and ReaderSpec read: the key, how the call ended, the pointer
\* returned and the readImage calls made
Unlock(t) ==
    /\ Leave(t)
    /\ last' = [NoCall EXCEPT !.key = LocKey(t), !.status = loc[t].status,
                              !.ret = loc[t].ret, !.loads = loc[t].loads]
    /\ sizesAgree' = (sizesAgree /\ (Admitted(loc[t].status) =>
                                        loc[t].imgSize = loc[t].memSize))
    /\ rd' = CASE rd.pc \in {"nb", "cs"} ->
                    [rd EXCEPT !.committed = Usage(nbImages, contentSize),
                               !.valid = @ \cup {Usage(nbImages, contentSize)}]
               [] rd.pc = "seen_locked" ->
                    [NoRead EXCEPT
                        !.pc = "seen",
                        !.committed = Usage(nbImages, contentSize),
                        !.intermediate =
                            Usage(rd.nbImages, rd.contentSize)
                                \notin rd.valid \cup {Usage(nbImages, contentSize)}]
               [] OTHER -> [rd EXCEPT !.committed = Usage(nbImages, contentSize)]

\* Leave, with no history kept
UnlockQuiet(t) ==
    /\ Leave(t)
    /\ UNCHANGED <<last, sizesAgree, rd>>

\* a caller lets go of a pointer get returned
ConcRelease ==
    /\ \E b \in DOMAIN refs :
          /\ External(imagePtrs, refs, b) >= 1
          /\ refs' = DropRef(refs, b)
    /\ UNCHANGED <<cfgVars, cacheVars, last, sizesAgree, concVars>>

\* memoryUsage(): return _memUsage; a reference, and no lock is taken
memoryUsage ==
    /\ rd.pc = "idle"
    /\ rd' = [rd EXCEPT !.pc = "nb", !.valid = {rd.committed}]
    /\ UNCHANGED <<cfgVars, cacheVars, refs, last, sizesAgree, mutex, pc, loc>>

\* the caller reads nbImages through the reference
ReadNbImages ==
    /\ rd.pc = "nb"
    /\ rd' = [rd EXCEPT !.pc = "cs", !.nbImages = nbImages]
    /\ UNCHANGED <<cfgVars, cacheVars, refs, last, sizesAgree, mutex, pc, loc>>

\* the caller reads contentSize through the reference; what it holds is judged
\* now, or at the unlock when a get is under way, whose outcome also counts
ReadContentSize ==
    /\ rd.pc = "cs"
    /\ rd' = IF mutex = 0
             THEN [NoRead EXCEPT
                      !.pc = "seen",
                      !.committed = rd.committed,
                      !.intermediate = Usage(rd.nbImages, contentSize) \notin rd.valid]
             ELSE [rd EXCEPT !.pc = "seen_locked", !.contentSize = contentSize]
    /\ UNCHANGED <<cfgVars, cacheVars, refs, last, sizesAgree, mutex, pc, loc>>

\* the caller is done with what it read
ReadDone ==
    /\ rd.pc = "seen"
    /\ rd' = [NoRead EXCEPT !.committed = rd.committed]
    /\ UNCHANGED <<cfgVars, cacheVars, refs, last, sizesAgree, mutex, pc, loc>>

\* the statements of get
GetStep(t) ==
    \/ Call(t) \/ Lock(t) \/ Find(t) \/ Size(t) \/ Fit(t) \/ Scan(t) \/ Loop(t)
    \/ EvictNb(t) \/ EvictCs(t) \/ EvictMap(t) \/ EvictKey(t) \/ MaxSize(t)
    \/ Load(t) \/ LoadMap(t) \/ LoadKey(t) \/ LoadNb(t) \/ LoadCs(t)
    \/ Return(t) \/ Unlock(t)

ConcNext == (\E t \in Threads : GetStep(t)) \/ ConcRelease

ConcSpec == ConcInit /\ [][ConcNext]_vars

\* the statements of get up to the unlock
GetBody(t) ==
    \/ Lock(t) \/ Find(t) \/ Size(t) \/ Fit(t) \/ Scan(t) \/ Loop(t)
    \/ EvictNb(t) \/ EvictCs(t) \/ EvictMap(t) \/ EvictKey(t) \/ MaxSize(t)
    \/ Load(t) \/ LoadMap(t) \/ LoadKey(t) \/ LoadNb(t) \/ LoadCs(t)
    \/ Return(t)

FairNext == (\E t \in Threads : Call(t) \/ GetBody(t) \/ UnlockQuiet(t)) \/ ConcRelease

\* ConcSpec without history, under the scheduling the termination of get is
\* stated for: a thread inside get keeps running (readImageSize and readImage
\* return or throw), and a thread waiting for _mutex gets it in the end
\* (strong fairness of Lock: the mutex is free again and again).
FairSpec ==
    /\ ConcInit
    /\ [][FairNext]_vars
    /\ \A t \in Threads :
          /\ WF_vars(GetBody(t) /\ pc[t] # "lock")
          /\ WF_vars(UnlockQuiet(t))
          /\ SF_vars(Lock(t))

\* a read that began before an unlock changed the accounting and is still
\* under way
ReadOutlivedGet == rd.pc \in {"nb", "cs"} /\ rd.valid # {rd.committed}

\* one thread in get and a caller of memoryUsage(); the reads looked at overlap
\* one get: no get begins while a read that outlived one is under way
ReaderNext ==
    \/ (~ReadOutlivedGet /\ Call(1))
    \/ Lock(1) \/ Find(1) \/ Size(1) \/ Fit(1) \/ Scan(1) \/ Loop(1)
    \/ EvictNb(1) \/ EvictCs(1) \/ EvictMap(1) \/ EvictKey(1) \/ MaxSize(1)
    \/ Load(1) \/ LoadMap(1) \/ LoadKey(1) \/ LoadNb(1) \/ LoadCs(1)
    \/ Return(1) \/ Unlock(1)
    \/ ConcRelease
    \/ memoryUsage \/ ReadNbImages \/ ReadContentSize \/ ReadDone

ReaderSpec == ConcInit /\ [][ReaderNext]_vars

-----------------------------------------------------------------------------
(* Properties of Spec *)

\* the entries some caller holds a handle to
Referenced(m, r) == {k \in DOMAIN m : useCount(r, m[k]) > 1}

\* the key a buffer was read for
KeyOfMade(made) ==
    CacheKey(made.filename, PixOf(made.pix).size, PixOf(made.pix).typeDesc, made.level)

\* the number of fields two keys differ in
FieldsApart(a, b) ==
    (IF a.filename = b.filename THEN 0 ELSE 1)
    + (IF a.nbChannels = b.nbChannels THEN 0 ELSE 1)
    + (IF a.typeDesc = b.typeDesc THEN 0 ELSE 1)
    + (IF a.halfSampleLevel = b.halfSampleLevel THEN 0 ELSE 1)

\* The step is a call of get (a release of a handle changes neither the
\* history nor the cache) that went past readImageSize for a key not in _keys;
\* last' tells the key, memSize and how the call ended.
MissStep ==
    /\ ~(last' = last /\ UNCHANGED cacheVars)
    /\ last'.status \in {"direct", "single", "multi", "exhausted", "load_failed"}

\* C1: get never evicts an entry a caller still holds: every entry get removed
\* had use count 1 when it was chosen, in the single-victim pass and in the
\* multi-victim pass, so every buffer with a live handle is still in the map.
C1_EvictionSafety ==
    /\ \A u \in last.evictedUse : u = 1
    /\ \A b \in DOMAIN refs : Resident(imagePtrs, b)

\* a multi-victim pass evicted entries and left a referenced one in place
C1_Witness ==
    /\ last.status = "multi"
    /\ last.nEvicted >= 1
    /\ \E k \in Referenced(imagePtrs, refs) : k # last.key

\* C2: contentSize is the sum of memorySize() over the mapped entries, after
\* every get, whichever way it ended.
C2_ContentSizeIsSum == contentSize = SumSizes(imagePtrs)

\* a get evicted entries, failed for lack of room, and entries remain
C2_Witness ==
    /\ last.status = "exhausted"
    /\ last.nEvicted >= 1
    /\ nbImages >= 1
    /\ contentSize > 0

\* C3: between get calls the keys of the map are the keys of the list, the
\* list holds no key twice, and nbImages is the number of mapped keys.
C3_MapListAgree ==
    /\ DOMAIN imagePtrs = {keys[i] : i \in 1..Len(keys)}
    /\ \A i, j \in 1..Len(keys) : keys[i] = keys[j] => i = j
    /\ nbImages = Cardinality(DOMAIN imagePtrs)

\* a get evicted a victim and then failed in readImage, entries remaining
C3_Witness ==
    /\ last.status = "load_failed"
    /\ last.nEvicted >= 1
    /\ Len(keys) >= 1

\* C4: with capacity <= maxSize and every admitted buffer of the size computed
\* before its admission, contentSize never exceeds maxSize.
C4_WithinMaxSize ==
    (capacity <= maxSize /\ sizesAgree) => contentSize <= maxSize

\* an admission through the multi-victim pass took the content above capacity
C4_Witness ==
    /\ capacity <= maxSize
    /\ sizesAgree
    /\ last.status = "multi"
    /\ contentSize > capacity

\* C5: a get that repeats the key of the successful get just before it is a
\* hit: it returns the buffer that call returned, calls readImage no more (one
\* readImage call at most over the two) and evicts nothing.
C5_RepeatIsHit ==
    last.repeat =>
        /\ last.status = "hit"
        /\ last.ret # NullBuf
        /\ last.ret = last.prevRet
        /\ last.loads = 0
        /\ last.prevLoads + last.loads <= 1
        /\ last.nEvicted = 0

\* the first of the two calls loaded the image, the second found it
C5_Witness ==
    /\ last.repeat
    /\ last.prevLoads = 1
    /\ last.status = "hit"

\* C6 as claimed: when every resident entry is referenced and the bytes required
\* for an absent key exceed maxSize - contentSize, get fails for lack of room
\* and leaves nbImages, contentSize, the map and the list as they were.
C6_Original ==
    [][( /\ MissStep
         /\ Referenced(imagePtrs, refs) = DOMAIN imagePtrs
         /\ last'.required > maxSize - contentSize )
       => /\ last'.status = "exhausted"
          /\ UNCHANGED cacheVars]_vars

\* C6: the same for a cache configured with capacity <= maxSize.
C6_ExhaustedAllReferenced ==
    [][( /\ MissStep
         /\ capacity <= maxSize
         /\ Referenced(imagePtrs, refs) = DOMAIN imagePtrs
         /\ last'.required > maxSize - contentSize )
       => /\ last'.status = "exhausted"
          /\ UNCHANGED cacheVars]_vars

\* a get failed for lack of room in a cache whose entries are all referenced
C6_Witness ==
    /\ capacity <= maxSize
    /\ last.status = "exhausted"
    /\ last.nEvicted = 0
    /\ nbImages >= 1
    /\ Referenced(imagePtrs, refs) = DOMAIN imagePtrs
    /\ last.required > maxSize - contentSize

\* C8: with capacity <= maxSize, a get for an absent key fails for lack of room
\* exactly when the required bytes and the bytes of the entries referenced at
\* the call exceed maxSize together.
C8_ExhaustedIff ==
    [][( MissStep /\ capacity <= maxSize )
       => ( last'.status = "exhausted"
            <=> last'.required
                  + SumSizes([k \in Referenced(imagePtrs, refs) |-> imagePtrs[k]])
                > maxSize )]_vars

\* a get failed for lack of room after evicting every unreferenced entry
C8_Witness ==
    /\ capacity <= maxSize
    /\ last.status = "exhausted"
    /\ last.nEvicted >= 1
    /\ Referenced(imagePtrs, refs) = DOMAIN imagePtrs
    /\ last.required + contentSize > maxSize

\* C9: requests differing in the path, the channel count, the sample type or
\* the level are different entries: every mapped buffer was read for its own
\* key, and a get that succeeds returns a buffer read for the key it asked.
C9_DistinctEntries ==
    /\ \A k \in DOMAIN imagePtrs : KeyOfMade(imagePtrs[k].made) = k
    /\ Succeeded(last.status) =>
           /\ last.ret # NullBuf
           /\ KeyOfMade(last.served) = last.key

\* two keys apart in the level alone are resident, the second just loaded
\* beside the first, each counted in contentSize
C9_Witness ==
    /\ last.status = "direct"
    /\ nbImages = 2
    /\ \E k \in DOMAIN imagePtrs :
          /\ k # last.key
          /\ FieldsApart(k, last.key) = 1
          /\ k.halfSampleLevel # last.key.halfSampleLevel
          /\ contentSize = imagePtrs[k].size + imagePtrs[last.key].size

-----------------------------------------------------------------------------
(* Steps of Spec read through the state before, the state after and the      *)
(* history of the call                                                       *)

\* memorySize() of the entry at position i of _keys
SizeAt(i) == memorySize(MapAt(imagePtrs, keys[i]))

\* the key a step of get asked for
AskedKey == last'.key

\* missingCapacity of a step of get that computed memSize
Missing == last'.required + contentSize - capacity

RECURSIVE KeysAfter(_, _, _)
\* the list ks after the first n of the evictions ev
KeysAfter(ks, ev, n) ==
    IF n = 0 THEN ks ELSE RemoveAt(KeysAfter(ks, ev, n - 1), ev[n])

\* the key the n-th eviction of a step removed
EvictedKey(n) == KeysAfter(keys, last'.evicted, n - 1)[last'.evicted[n]]

\* the keys a step evicted
EvictedKeys == {EvictedKey(n) : n \in 1..Len(last'.evicted)}

RECURSIVE FreedBefore(_)
\* the bytes a step had freed before its n-th eviction
FreedBefore(n) ==
    IF n <= 1 THEN 0
    ELSE FreedBefore(n - 1) + memorySize(MapAt(imagePtrs, EvictedKey(n - 1)))

\* the entries of _keys other than key, in their order
Without(ks, key) == SelectSeq(ks, LAMBDA k : k # key)

\* the entries of _keys outside the set gone, in their order
Remaining(ks, gone) == SelectSeq(ks, LAMBDA k : k \notin gone)

-----------------------------------------------------------------------------
(* Properties of Spec, continued *)

\* C11: in a get the eviction loop subtracts what it frees from the missing
\* bytes and stops once they are covered: no eviction is made when the bytes
\* freed before it by the same call already reach the initial missingCapacity.
C11_StopsWhenFreed ==
    [][MissStep => \A n \in 1..Len(last'.evicted) : FreedBefore(n) < Missing]_vars

\* the entry at position i of _keys has no outside owner and is at least as
\* large as the missing bytes of the step
Fits(i) == UseAt(i) = 1 /\ SizeAt(i) >= Missing

\* C12: a get for an absent key that does not fit the capacity, with some entry
\* unreferenced and at least as large as the missing bytes, evicts one entry
\* and no other: the oldest such entry, older entries that are referenced or
\* too small staying; it then goes to the admission, which reads the image once
\* and appends the key as most recently used (nothing is appended when readImage
\* throws).
C12_FirstFitVictim ==
    [][( /\ MissStep
         /\ Missing > 0
         /\ \E i \in 1..Len(keys) : Fits(i) )
       => LET v == CHOOSE i \in 1..Len(keys) :
                       Fits(i) /\ \A j \in 1..(i - 1) : ~Fits(j)
          IN  /\ last'.evicted = <<v>>
              /\ last'.loads = 1
              /\ last'.status \in {"single", "load_failed"}
              /\ DOMAIN imagePtrs' \ {AskedKey} = DOMAIN imagePtrs \ {keys[v]}
              /\ \A k \in DOMAIN imagePtrs \ {keys[v]} : imagePtrs'[k] = imagePtrs[k]
              /\ keys' = IF last'.status = "single"
                         THEN Append(RemoveAt(keys, v), AskedKey)
                         ELSE RemoveAt(keys, v)
              /\ last'.status = "single" => AskedKey \in DOMAIN imagePtrs']_vars

\* a single victim was evicted from behind two older entries, which stayed
C12_Witness ==
    /\ last.status = "single"
    /\ last.evicted = <<3>>
    /\ nbImages >= 3
    /\ keys[Len(keys)] = last.key

\* useCount() of the entry of key k
UseOf(k) == useCount(refs, MapAt(imagePtrs, k))

\* C13: when no single entry covers the missing bytes, the evictions of the
\* call go from the least to the most recently used of the unreferenced
\* entries: at each eviction every older entry still in the list is referenced.
\* Referenced entries are passed over without ending the pass (an unreferenced
\* entry stays only if the bytes freed cover the missing ones), none of them is
\* evicted, and the entries that stay keep their order.
C13_MultiVictimOrder ==
    [][( /\ MissStep
         /\ Missing > 0
         /\ \A i \in 1..Len(keys) : ~Fits(i) )
       => LET ev   == last'.evicted
              gone == EvictedKeys
          IN  /\ \A n \in 1..Len(ev) :
                    \A j \in 1..(ev[n] - 1) : UseOf(KeysAfter(keys, ev, n - 1)[j]) > 1
              /\ \A k \in DOMAIN imagePtrs :
                    (UseOf(k) = 1 /\ k \notin gone) => FreedBefore(Len(ev) + 1) >= Missing
              /\ \A k \in DOMAIN imagePtrs : UseOf(k) > 1 => k \notin gone
              /\ Without(keys', AskedKey) = Remaining(keys, gone)]_vars

\* a call evicted two entries, the second from behind a referenced entry, which
\* stayed
C13_Witness ==
    /\ last.status = "multi"
    /\ Len(last.evicted) = 2
    /\ last.evicted[2] >= 2
    /\ nbImages >= 2

\* C14: a get that fails in readImageSize or in readImage leaves no trace of
\* its key: the key is in neither the map nor the list, nbImages and
\* contentSize are those of the entries that remain (also when an entry was
\* evicted before readImage was called), and the next get for the key, if it
\* comes next, is a miss again and goes back to the loader.
C14_FailureNotCached ==
    /\ LoaderFailed(last.status) =>
          /\ last.key \notin DOMAIN imagePtrs
          /\ \A i \in 1..Len(keys) : keys[i] # last.key
          /\ last.ret = NullBuf
          /\ nbImages = Cardinality(DOMAIN imagePtrs)
          /\ nbImages = Len(keys)
          /\ contentSize = SumSizes(imagePtrs)
    /\ last.retry =>
          /\ last.status # "hit"
          /\ last.pos = 0
          /\ last.status \notin {"probe_failed", "exhausted"} => last.loads = 1

\* a get failed in readImage after evicting an entry, right after a get for the
\* same key had failed in the loader, and entries remain
C14_Witness ==
    /\ last.retry
    /\ last.status = "load_failed"
    /\ last.nEvicted >= 1
    /\ nbImages >= 1

\* C15: a get that fails for lack of room creates no entry for its key and
\* does not call readImage, and the evictions it made stay: the evicted keys
\* are gone from the map and the list, the other entries are as they were, and
\* nbImages and contentSize are lower by exactly the evicted entries.
C15_ExhaustionKeepsEvictions ==
    [][( MissStep /\ last'.status = "exhausted" )
       => LET gone == EvictedKeys
          IN  /\ AskedKey \notin DOMAIN imagePtrs'
              /\ \A i \in 1..Len(keys') : keys'[i] # AskedKey
              /\ last'.loads = 0
              /\ last'.ret = NullBuf
              /\ Cardinality(gone) = Len(last'.evicted)
              /\ DOMAIN imagePtrs' = DOMAIN imagePtrs \ gone
              /\ \A k \in DOMAIN imagePtrs' : imagePtrs'[k] = imagePtrs[k]
              /\ keys' = Remaining(keys, gone)
              /\ nbImages' = nbImages - Len(last'.evicted)
              /\ contentSize' = contentSize - FreedBefore(Len(last'.evicted) + 1)]_vars

\* a get failed for lack of room after an eviction, without reading the image
C15_Witness ==
    /\ last.status = "exhausted"
    /\ Len(last.evicted) >= 1
    /\ last.loads = 0
    /\ last.key \notin DOMAIN imagePtrs
    /\ nbImages >= 1

\* a get found its key in the list
HitStep == last'.status = "hit" /\ ~(last' = last /\ UNCHANGED cacheVars)

C18_SingleVictimRestores ==
    [][(/\ MissStep
        /\ last'.status = "single"
        /\ imagePtrs'[AskedKey].size = last'.required)
       => /\ contentSize' <= capacity
          /\ nbImages' = nbImages
          /\ Len(last'.evicted) = 1]_vars

\* a single-victim admission into a cache of several entries, the buffer of the
\* size asked for
C18_Witness ==
    /\ last.status = "single"
    /\ Len(last.evicted) = 1
    /\ imagePtrs[last.key].size = last.required
    /\ nbImages >= 2
    /\ contentSize <= capacity

\* C19: a get for an absent key with memSize + contentSize <= capacity goes
\* straight to the load and evicts nothing: every entry of before is still in
\* the map, unchanged, and the list of before is a prefix of the list after,
\* the new key appended when readImage delivered.
C19_DirectEvictsNothing ==
    [][(MissStep /\ last'.required + contentSize <= capacity)
       => /\ last'.status \in {"direct", "load_failed"}
          /\ last'.evicted = <<>>
          /\ last'.loads = 1
          /\ \A k \in DOMAIN imagePtrs :
                 k \in DOMAIN imagePtrs' /\ imagePtrs'[k] = imagePtrs[k]
          /\ keys' = IF last'.status = "direct" THEN Append(keys, AskedKey) ELSE keys
          /\ last'.status = "direct" => nbImages' = nbImages + 1]_vars

\* a direct admission beside at least two entries that stayed
C19_Witness ==
    /\ last.status = "direct"
    /\ last.evicted = <<>>
    /\ nbImages >= 3
    /\ Len(keys) >= 3
    /\ keys[Len(keys)] = last.key
    /\ contentSize <= capacity

-----------------------------------------------------------------------------
(* Properties of ConcSpec *)

\* thread t is about to leave a get it entered while a get for the same key held
\* _mutex, and the get that held _mutex just before its own admitted that key
SecondCaller(t) ==
    /\ pc[t] = "unlock"
    /\ loc[t].overlapped
    /\ last.key = LocKey(t)
    /\ Admitted(last.status)

\* C17: of two threads in get for the same absent key at the same time, the one
\* that takes _mutex second finds the entry the first admitted: it takes the hit
\* path, returns the pointer the first returned, and calls readImage no more,
\* which was called once.
C17_SecondCallerHits ==
    \A t \in Threads :
        SecondCaller(t) =>
            /\ loc[t].status = "hit"
            /\ loc[t].ret = last.ret
            /\ loc[t].ret # NullBuf
            /\ loc[t].loads = 0
            /\ last.loads = 1

\* a thread that waited for _mutex behind a get for its own key went the hit
\* path and shares the buffer with the first caller
C17_Witness ==
    \E t \in Threads :
        /\ SecondCaller(t)
        /\ loc[t].status = "hit"
        /\ loc[t].ret = last.ret
        /\ refs[last.ret] >= 2

-----------------------------------------------------------------------------
(* Properties of FairSpec *)

\* C20: every get completes, with a pointer or with a failure: a thread that
\* called get is back out of it in the end, whatever the cache holds (the
\* multi-victim loop among its steps), and with threads that keep running and
\* a waiting thread that gets _mutex when it is free again and again, every
\* thread waiting for _mutex enters and leaves; _mutex, once taken, is free
\* again, after success and after failure.
C20_GetCompletes ==
    /\ \A t \in Threads : (pc[t] # "idle") ~> (pc[t] = "idle")
    /\ \A t \in Threads : (pc[t] = "lock") ~> (mutex = t)
    /\ (mutex # 0) ~> (mutex = 0)

\* a thread is about to leave a get that failed, after a pass of the
\* multi-victim loop or a throwing readImage, while the other waits for _mutex
C20_Witness ==
    \E t, u \in Threads :
        /\ t # u
        /\ pc[t] = "unlock"
        /\ mutex = t
        /\ loc[t].status \in {"exhausted", "load_failed"}
        /\ pc[u] = "lock"

-----------------------------------------------------------------------------
(* Properties of ReaderSpec *)

\* C7: memoryUsage() is serialized with get behind the lock: what a caller
\* reads of the accounting is the accounting some serialized memoryUsage() would
\* have returned, never a state in the middle of a get.
C7_ReaderSeesCommitted ==
    rd.pc = "seen" => ~rd.intermediate

-----------------------------------------------------------------------------
(* Properties of CtorSpec *)

\* the int x holds exactly mb * 1000000
ExactBytes(x, mb) == x \div BytesPerMB = mb /\ x % BytesPerMB = 0

\* C10: the thresholds are capacity_MB * 1000000 and maxSize_MB * 1000000
\* exactly, whatever the arguments, so that capacity_MB <= maxSize_MB gives
\* capacity <= maxSize.
C10_ExactThresholds ==
    ctor = "done" =>
        /\ ExactBytes(capacity, capacity_MB)
        /\ ExactBytes(maxSize, maxSize_MB)
        /\ (capacity_MB <= maxSize_MB => capacity <= maxSize)

=============================================================================
